---- MODULE Spec2Model ----
(***************************************************************************)
(* A model of pymilvus/orm/schema.py: FieldSchema, CollectionSchema and    *)
(* the insert/upsert payload checks.                                        *)
(*                                                                          *)
(* Python values are encoded as follows.                                    *)
(*   - None is the string "None"; a keyword that was not passed is Absent.  *)
(*   - an optional bool keyword is one of Absent, "True", "False", NotBool  *)
(*     (NotBool: a value for which isinstance(v, bool) is false).           *)
(*   - a name hint is None, a field name, or NotStr (not a str).            *)
(*   - a dict is a record with a field `present` (the set of its keys) and  *)
(*     one field per possible key; the value under a key that is not        *)
(*     present is a fixed filler, so record equality is dict equality.      *)
(*   - a reference to a FieldSchema held in self._fields is its index in    *)
(*     the list; 0 is None.                                                 *)
(***************************************************************************)
EXTENDS Integers, Sequences, FiniteSets, TLC

None == "None"
Absent == "<absent>"
NotStr == "<non-str>"
NotBool == "<non-bool>"

\* ------------------------------------------------------------------ bounds
\* longest field list handed to CollectionSchema(...) or reached by add_field
MaxFields == 2
\* longest field list of the kwarg-stage specification
MaxKwFields == 1
\* longest field list of a schema that payloads are checked against
MaxDataFields == 3
\* most columns of a list payload, and of a DataFrame
MaxListCols == 3
MaxTableCols == 2
\* longest list handed to check_infer_fields_valid
MaxReconLen == 2
MaxVerifyFields == 1

\* ------------------------------------------------------------- type system
INT64 == "INT64"
VARCHAR == "VARCHAR"
FLOAT_VECTOR == "FLOAT_VECTOR"
BINARY_VECTOR == "BINARY_VECTOR"
UNKNOWN == "UNKNOWN"
\* a value DataType(...) rejects with ValueError
InvalidDType == "<invalid>"

\* the members of DataType the model draws field types from
DTypes == {INT64, VARCHAR, FLOAT_VECTOR}

\* [DataType.INT64, DataType.VARCHAR] of validate_primary_key / validate_partition_key
KeyDTypes == {INT64, VARCHAR}

\* .constants.COMMON_TYPE_PARAMS
COMMON_TYPE_PARAMS == {"dim", "max_length"}

Names == {"a", "b"}

\* -------------------------------------------------------------- exceptions
\* An outcome is the exception raised, with the ExceptionsMessage it carries,
\* or OK when the call returned.
OK == [type |-> "ok", msg |-> ""]
Raise(type, msg) == [type |-> type, msg |-> msg]

\* ------------------------------------------------------------- FieldSchema
OptBool == {Absent, "True", "False", NotBool}

\* kwargs.get(k, False) of an optional bool keyword that passed isinstance(.., bool)
GetBool(v) == v = "True"

\* infer_default_value_bydata: None stays None; a scalar of a supported type is
\* wrapped in a ValueField; anything else raises ParamError.
\* Values: "None", "scalar:1" (a plain int), "list" (a non-scalar),
\* "VF:long=1" (a ValueField holding long_data = 1), "VF:unset" (no variant set).
infer_default_value_bydata(data) ==
    IF data = None THEN [err |-> OK, v |-> None]
    ELSE IF data = "scalar:1" THEN [err |-> OK, v |-> "VF:long=1"]
    ELSE [err |-> Raise("ParamError", "DefaultValueUnsupported"), v |-> None]

IsValueField(v) == v \in {"VF:long=1", "VF:unset"}

\* FieldSchema._parse_type_params: params are kept only for vector / varchar
\* dtypes and only under the recognised keys.
parse_type_params(dtype, extra) ==
    IF dtype \notin {BINARY_VECTOR, FLOAT_VECTOR, VARCHAR} THEN {}
    ELSE {p \in extra : p[1] \in COMMON_TYPE_PARAMS}

NoField ==
    [name |-> "", dtype |-> UNKNOWN, description |-> "", params |-> {},
     is_primary |-> FALSE, auto_id |-> FALSE, is_partition_key |-> FALSE,
     is_dynamic |-> FALSE, default_value |-> None, kind |-> "other"]

\* the rule of FieldSchema.__init__ on auto_id: not (not is_primary and auto_id)
AutoIdAllowed_Always(is_primary, auto_id) == TRUE

AutoIdAllowed(is_primary, auto_id) == is_primary \/ ~auto_id

\* FieldSchema.__init__(name, dtype, description, **kw), kw a record
\* [is_primary, auto_id, is_partition_key : OptBool, is_dynamic : BOOLEAN,
\*  default_value, extra : set of <<key, value>>].
\* The result is [err, f]: the exception raised ("ok" for none) and the object.
FieldSchemaInit(name, dtype, description, kw) ==
    LET dv == IF IsValueField(kw.default_value)
              THEN [err |-> OK,
                    v |-> IF kw.default_value = "VF:unset" THEN None
                          ELSE kw.default_value]
              ELSE infer_default_value_bydata(kw.default_value)
        err == IF dtype = InvalidDType \/ dtype = UNKNOWN
                 THEN Raise("DataTypeNotSupportException", "FieldDtype")
               ELSE IF kw.is_primary = NotBool
                 THEN Raise("PrimaryKeyException", "IsPrimaryType")
               ELSE IF kw.auto_id # Absent /\ kw.auto_id = NotBool
                 THEN Raise("AutoIDException", "AutoIDType")
               ELSE IF kw.auto_id # Absent
                       /\ ~AutoIdAllowed(GetBool(kw.is_primary), GetBool(kw.auto_id))
                 THEN Raise("PrimaryKeyException", "AutoIDOnlyOnPK")
               ELSE IF kw.is_partition_key = NotBool
                 THEN Raise("PartitionKeyException", "IsPartitionKeyType")
               ELSE dv.err
    IN  IF err # OK THEN [err |-> err, f |-> NoField]
        ELSE [err |-> OK,
              f |-> [name |-> name, dtype |-> dtype, description |-> description,
                     params |-> parse_type_params(dtype, kw.extra),
                     is_primary |-> GetBool(kw.is_primary),
                     auto_id |-> GetBool(kw.auto_id),
                     is_partition_key |-> GetBool(kw.is_partition_key),
                     is_dynamic |-> kw.is_dynamic,
                     default_value |-> dv.v,
                     kind |-> "FieldSchema"]]

\* raw.get(key, default) on a dict
DictGet(raw, key, default) == IF key \in raw.present THEN raw[key] ELSE default

\* FieldSchema.to_dict
FieldToDict(f) ==
    [present |-> {"name", "description", "type"}
                 \cup (IF f.params # {} THEN {"params"} ELSE {})
                 \cup (IF f.is_primary THEN {"is_primary", "auto_id"} ELSE {})
                 \cup (IF f.is_partition_key THEN {"is_partition_key"} ELSE {})
                 \cup (IF f.default_value # None THEN {"default_value"} ELSE {})
                 \cup (IF f.is_dynamic THEN {"is_dynamic"} ELSE {}),
     name |-> f.name,
     description |-> f.description,
     type |-> f.dtype,
     params |-> f.params,
     is_primary |-> f.is_primary,
     auto_id |-> IF f.is_primary THEN f.auto_id ELSE FALSE,
     is_partition_key |-> f.is_partition_key,
     default_value |-> f.default_value,
     is_dynamic |-> f.is_dynamic]

BoolKw(b) == IF b THEN "True" ELSE "False"

FieldFromDict_DropsParams(raw) ==
    FieldSchemaInit(
        raw.name, raw.type, DictGet(raw, "description", ""),
        [extra |-> {},
         is_primary |-> BoolKw(DictGet(raw, "is_primary", FALSE)),
         auto_id |-> IF "auto_id" \in raw.present THEN BoolKw(raw.auto_id)
                     ELSE Absent,
         is_partition_key |-> BoolKw(DictGet(raw, "is_partition_key", FALSE)),
         default_value |-> DictGet(raw, "default_value", None),
         is_dynamic |-> DictGet(raw, "is_dynamic", FALSE)])

\* FieldSchema.construct_from_dict
FieldFromDict(raw) ==
    FieldSchemaInit(
        raw.name, raw.type, DictGet(raw, "description", ""),
        [extra |-> DictGet(raw, "params", {}),
         is_primary |-> BoolKw(DictGet(raw, "is_primary", FALSE)),
         auto_id |-> IF "auto_id" \in raw.present THEN BoolKw(raw.auto_id)
                     ELSE Absent,
         is_partition_key |-> BoolKw(DictGet(raw, "is_partition_key", FALSE)),
         default_value |-> DictGet(raw, "default_value", None),
         is_dynamic |-> DictGet(raw, "is_dynamic", FALSE)])

\* FieldSchema.__deepcopy__; any other object is copied as it is
DeepCopyField(f) ==
    IF f.kind = "FieldSchema" THEN FieldFromDict(FieldToDict(f)).f ELSE f

\* -------------------------------------------------------- CollectionSchema
\* validate_primary_key(primary_field); fields[0] does not exist: p = 0 is None
validate_primary_key(fields, p) ==
    IF p = 0 THEN Raise("PrimaryKeyException", "PrimaryKeyNotExist")
    ELSE IF fields[p].dtype \notin KeyDTypes
      THEN Raise("PrimaryKeyException", "PrimaryKeyType")
    ELSE OK

\* validate_partition_key(partition_key_field_name, partition_key_field,
\* primary_field_name). When the partition-key field has the primary field's
\* name the code builds a PartitionKeyException and drops it (no raise), so
\* that branch has no effect on the outcome.
validate_partition_key(kname, fields, k, pname) ==
    IF k # 0
    THEN LET built == IF fields[k].name = pname
                      THEN Raise("PartitionKeyException", "PartitionKeyNotPrimary")
                      ELSE OK
         IN  IF fields[k].dtype \notin KeyDTypes
             THEN Raise("PartitionKeyException", "PartitionKeyType")
             ELSE OK
    ELSE IF kname # None
      THEN Raise("PartitionKeyException", "PartitionKeyFieldNotExist")
    ELSE OK

\* CollectionSchema._check_kwargs
check_kwargs(kw, fields) ==
    IF kw.primary_field # None /\ kw.primary_field = NotStr
      THEN Raise("PrimaryKeyException", "PrimaryFieldType")
    ELSE IF kw.partition_key_field # None /\ kw.partition_key_field = NotStr
      THEN Raise("PartitionKeyException", "PartitionKeyFieldType")
    ELSE IF \E i \in 1..Len(fields) : fields[i].kind # "FieldSchema"
      THEN Raise("FieldTypeException", "FieldType")
    ELSE IF kw.auto_id # Absent /\ kw.auto_id = NotBool
      THEN Raise("AutoIDException", "AutoIDType")
    ELSE OK

\* One iteration of the loop of _check_fields over field i. st is the state of
\* the call: [err, fields, primary, partition, pname, kname], where pname and
\* kname are the locals primary_field_name and partition_key_field_name.
check_fields_step(st, i) ==
    LET f0 == st.fields[i]
        f1 == [f0 EXCEPT !.is_primary = (st.pname = f0.name) \/ @,
                         !.is_partition_key = (st.kname = f0.name) \/ @]
        fs == [st.fields EXCEPT ![i] = f1]
        s1 == IF ~f1.is_primary THEN [st EXCEPT !.fields = fs]
              ELSE IF st.pname # None /\ st.pname # f1.name
                THEN [st EXCEPT !.fields = fs,
                         !.err = Raise("PrimaryKeyException", "PrimaryKeyOnlyOne")]
              ELSE [st EXCEPT !.fields = fs, !.primary = i, !.pname = f1.name]
    IN  IF s1.err # OK \/ ~f1.is_partition_key THEN s1
        ELSE IF s1.kname # None /\ s1.kname # f1.name
          THEN [s1 EXCEPT !.err = Raise("PartitionKeyException", "PartitionKeyOnlyOne")]
        ELSE [s1 EXCEPT !.partition = i, !.kname = f1.name]

RECURSIVE check_fields_loop(_, _)
check_fields_loop(st, i) ==
    IF i > Len(st.fields) \/ st.err # OK THEN st
    ELSE check_fields_loop(check_fields_step(st, i), i + 1)

check_fields_NoAutoIdHint(obj) ==
    LET st == check_fields_loop(
                [err |-> OK, fields |-> obj.fields, primary |-> obj.primary,
                 partition |-> obj.partition,
                 pname |-> obj.kwargs.primary_field,
                 kname |-> obj.kwargs.partition_key_field], 1)
        vp == validate_primary_key(st.fields, st.primary)
        vk == validate_partition_key(st.kname, st.fields, st.partition,
                                     st.fields[st.primary].name)
    IN  [err |-> IF st.err # OK THEN st.err ELSE IF vp # OK THEN vp ELSE vk,
         kwargs |-> obj.kwargs, fields |-> st.fields,
         primary |-> st.primary, partition |-> st.partition]

\* CollectionSchema._check_fields on an object whose state is obj =
\* [kwargs, fields, primary, partition]; the result is the state it leaves,
\* with the exception raised in err.
check_fields(obj) ==
    LET st0 == [err |-> OK, fields |-> obj.fields, primary |-> obj.primary,
                partition |-> obj.partition,
                pname |-> obj.kwargs.primary_field,
                kname |-> obj.kwargs.partition_key_field]
        st == check_fields_loop(st0, 1)
        vp == validate_primary_key(st.fields, st.primary)
        vk == validate_partition_key(st.kname, st.fields, st.partition,
                                     st.fields[st.primary].name)
        err == IF st.err # OK THEN st.err ELSE IF vp # OK THEN vp ELSE vk
        auto_id == GetBool(obj.kwargs.auto_id)
    IN  [err |-> err,
         kwargs |-> obj.kwargs,
         fields |-> IF err = OK /\ auto_id
                    THEN [st.fields EXCEPT ![st.primary].auto_id = TRUE]
                    ELSE st.fields,
         primary |-> st.primary,
         partition |-> st.partition]

check_KwargsOnly(obj) ==
    [err |-> check_kwargs(obj.kwargs, obj.fields), kwargs |-> obj.kwargs,
     fields |-> obj.fields, primary |-> obj.primary, partition |-> obj.partition]

\* CollectionSchema._check: _check_kwargs, then _check_fields
check(obj) ==
    LET ek == check_kwargs(obj.kwargs, obj.fields)
    IN  IF ek # OK
        THEN [err |-> ek, kwargs |-> obj.kwargs, fields |-> obj.fields,
              primary |-> obj.primary, partition |-> obj.partition]
        ELSE check_fields(obj)

CollectionSchemaInit_FieldsFirst(is_list, fields, kw) ==
    LET obj1 == [kwargs |-> kw,
                 fields |-> [i \in 1..Len(fields) |-> DeepCopyField(fields[i])],
                 primary |-> 0, partition |-> 0]
        r == IF kw.check_fields THEN check_fields(obj1)
             ELSE [err |-> OK, kwargs |-> kw, fields |-> obj1.fields,
                   primary |-> 0, partition |-> 0]
        ek == check_kwargs(kw, obj1.fields)
    IN  IF ~is_list
        THEN [err |-> Raise("FieldsTypeException", "FieldsType"),
              kwargs |-> kw, fields |-> << >>, primary |-> 0, partition |-> 0]
        ELSE IF r.err = OK /\ ek # OK THEN [r EXCEPT !.err = ek]
        ELSE r

\* CollectionSchema.__init__(fields, description, **kw): is_list is
\* isinstance(fields, list); kw is [primary_field, partition_key_field,
\* auto_id, check_fields, enable_dynamic_field].
CollectionSchemaInit(is_list, fields, kw) ==
    LET obj0 == [kwargs |-> kw, fields |-> << >>, primary |-> 0, partition |-> 0]
        obj1 == [obj0 EXCEPT !.fields = [i \in 1..Len(fields) |-> DeepCopyField(fields[i])]]
        ek == check_kwargs(kw, obj1.fields)
    IN  IF ~is_list
        THEN [err |-> Raise("FieldsTypeException", "FieldsType"),
              kwargs |-> kw, fields |-> << >>, primary |-> 0, partition |-> 0]
        ELSE IF ek # OK
        THEN [err |-> ek, kwargs |-> kw, fields |-> obj1.fields,
              primary |-> 0, partition |-> 0]
        ELSE IF kw.check_fields THEN check_fields(obj1)
        ELSE [err |-> OK, kwargs |-> kw, fields |-> obj1.fields,
              primary |-> 0, partition |-> 0]

\* the keyword arguments of CollectionSchema(fields) with none passed
NoKwargs ==
    [primary_field |-> None, partition_key_field |-> None, auto_id |-> Absent,
     check_fields |-> TRUE, enable_dynamic_field |-> FALSE]

\* CollectionSchema.to_dict of the object obj with the given description and
\* enable_dynamic_field; self.auto_id reads primary_field.auto_id, so the
\* object must have a primary field
SchemaToDict(obj, desc, dyn) ==
    [present |-> {"auto_id", "description", "fields"}
                 \cup (IF dyn THEN {"enable_dynamic_field"} ELSE {}),
     auto_id |-> obj.fields[obj.primary].auto_id,
     description |-> desc,
     fields |-> [i \in 1..Len(obj.fields) |-> FieldToDict(obj.fields[i])],
     enable_dynamic_field |-> dyn]

\* CollectionSchema.construct_from_dict: [err, obj, description,
\* enable_dynamic_field]; an exception of a FieldSchema.construct_from_dict
\* ends the call
SchemaFromDict(raw) ==
    LET made == [i \in 1..Len(raw.fields) |-> FieldFromDict(raw.fields[i])]
        bad == {i \in 1..Len(made) : made[i].err # OK}
        dyn == DictGet(raw, "enable_dynamic_field", FALSE)
        kw == [NoKwargs EXCEPT !.enable_dynamic_field = dyn]
        r == CollectionSchemaInit(TRUE, [i \in 1..Len(made) |-> made[i].f], kw)
    IN  IF bad # {}
        THEN [err |-> made[CHOOSE i \in bad : \A j \in bad : i <= j].err,
              obj |-> [kwargs |-> kw, fields |-> << >>, primary |-> 0,
                       partition |-> 0],
              description |-> "", enable_dynamic_field |-> FALSE]
        ELSE [err |-> r.err,
              obj |-> [kwargs |-> r.kwargs, fields |-> r.fields,
                       primary |-> r.primary, partition |-> r.partition],
              description |-> DictGet(raw, "description", ""),
              enable_dynamic_field |-> dyn]

\* ------------------------------------------------- reconciliation checker
check_infer_fields_valid_NamesAlways(infer_fields, tmp_fields, is_data_frame) ==
    LET n == Len(infer_fields)
        bad == {i \in 1..n : infer_fields[i].dtype # tmp_fields[i].dtype
                             \/ infer_fields[i].name # tmp_fields[i].name}
        at == CHOOSE i \in bad : \A j \in bad : i <= j
    IN  IF n # Len(tmp_fields)
        THEN [err |-> Raise("DataNotMatchException", "FieldsNotMatch"), at |-> 0]
        ELSE IF bad = {} THEN [err |-> OK, at |-> 0]
        ELSE IF infer_fields[at].dtype # tmp_fields[at].dtype
        THEN [err |-> Raise("DataNotMatchException", "DataTypeNotMatch"), at |-> at]
        ELSE [err |-> Raise("DataNotMatchException", "FieldNameNotMatch"), at |-> at]

check_infer_fields_valid_NoLenCheck(infer_fields, tmp_fields, is_data_frame) ==
    LET n == IF Len(infer_fields) < Len(tmp_fields) THEN Len(infer_fields)
             ELSE Len(tmp_fields)
        bad == {i \in 1..n : infer_fields[i].dtype # tmp_fields[i].dtype
                             \/ (is_data_frame
                                   /\ infer_fields[i].name # tmp_fields[i].name)}
        at == CHOOSE i \in bad : \A j \in bad : i <= j
    IN  IF bad = {} THEN [err |-> OK, at |-> 0]
        ELSE IF infer_fields[at].dtype # tmp_fields[at].dtype
        THEN [err |-> Raise("DataNotMatchException", "DataTypeNotMatch"), at |-> at]
        ELSE [err |-> Raise("DataNotMatchException", "FieldNameNotMatch"), at |-> at]

\* check_infer_fields_valid: [err, at], at the position (from 1) the loop
\* raised at, 0 when it did not. The loop stops at the first position whose
\* dtypes differ or, for a DataFrame, whose names differ; at that position
\* the dtypes are compared first.
check_infer_fields_valid(infer_fields, tmp_fields, is_data_frame) ==
    LET n == Len(infer_fields)
        bad == {i \in 1..n : infer_fields[i].dtype # tmp_fields[i].dtype
                             \/ (is_data_frame
                                   /\ infer_fields[i].name # tmp_fields[i].name)}
        at == CHOOSE i \in bad : \A j \in bad : i <= j
    IN  IF n # Len(tmp_fields)
        THEN [err |-> Raise("DataNotMatchException", "FieldsNotMatch"), at |-> 0]
        ELSE IF bad = {} THEN [err |-> OK, at |-> 0]
        ELSE IF infer_fields[at].dtype # tmp_fields[at].dtype
        THEN [err |-> Raise("DataNotMatchException", "DataTypeNotMatch"), at |-> at]
        ELSE [err |-> Raise("DataNotMatchException", "FieldNameNotMatch"), at |-> at]

\* ------------------------------------------------- field inference engine
\* A payload is [kind, cols, rows]. kind is "list", "DataFrame" or "other"
\* (neither). A column of a list payload is None, "[]" (an empty list),
\* "scalar" (not list-like), or the DataType infer_dtype_bydata gives for its
\* first element (UNKNOWN when it cannot tell). A column of a DataFrame is
\* [name, mapped, sampled]: what map_numpy_dtype_to_datatype gives for its
\* numpy dtype and what infer_dtype_bydata gives for its value in the first
\* row. rows is "empty" (no row), "null" (rows, the primary-key column all
\* null) or "data".

\* list.pop(i), positions from 1
RemoveAt(seq, i) == SubSeq(seq, 1, i - 1) \o SubSeq(seq, i + 1, Len(seq))

IsAutoIdPrimary(f) == f.is_primary /\ f.auto_id

pop_auto_id_list_KeepsAll(tmp_fields, i) == tmp_fields

\* parse_fields_from_data: for i, field in enumerate(tmp_fields): pop(i) when
\* the field is an auto-id primary field. The list shrinks under the loop.
RECURSIVE pop_auto_id_list(_, _)
pop_auto_id_list(tmp_fields, i) ==
    IF i > Len(tmp_fields) THEN tmp_fields
    ELSE IF IsAutoIdPrimary(tmp_fields[i])
      THEN pop_auto_id_list(RemoveAt(tmp_fields, i), i + 1)
    ELSE pop_auto_id_list(tmp_fields, i + 1)

\* parse_fields_from_dataframe: for i, field in enumerate(schema.fields):
\* tmp_fields.pop(i) when the field is an auto-id primary field; the index is
\* the one in schema.fields, and pop raises IndexError past the end
RECURSIVE pop_auto_id_df(_, _, _)
pop_auto_id_df(schema_fields, tmp_fields, i) ==
    IF i > Len(schema_fields) THEN [err |-> OK, tmp |-> tmp_fields]
    ELSE IF ~IsAutoIdPrimary(schema_fields[i])
      THEN pop_auto_id_df(schema_fields, tmp_fields, i + 1)
    ELSE IF i > Len(tmp_fields)
      THEN [err |-> Raise("IndexError", "pop index out of range"), tmp |-> tmp_fields]
    ELSE pop_auto_id_df(schema_fields, RemoveAt(tmp_fields, i), i + 1)

\* copy.deepcopy(schema.fields)
DeepCopyFields(fs) == [i \in 1..Len(fs) |-> DeepCopyField(fs[i])]

\* FieldSchema(name, dtype, **type_params)
InferredField(name, dtype, type_params) ==
    FieldSchemaInit(name, dtype, "",
        [is_primary |-> Absent, auto_id |-> Absent, is_partition_key |-> Absent,
         is_dynamic |-> FALSE, default_value |-> None, extra |-> type_params])

\* the second loop of parse_fields_from_data: the columns past the expected
\* fields; data[index][0] fails on None, on a scalar and on an empty list
RECURSIVE infer_list_extra(_, _, _)
infer_list_extra(cols, index, infer_fields) ==
    IF index > Len(cols) THEN [err |-> OK, infer |-> infer_fields]
    ELSE IF cols[index] = None \/ cols[index] = "scalar"
      THEN [err |-> Raise("TypeError", "not subscriptable"), infer |-> infer_fields]
    ELSE IF cols[index] = "[]"
      THEN [err |-> Raise("IndexError", "list index out of range"),
            infer |-> infer_fields]
    ELSE LET r == InferredField("", cols[index], {})
         IN  IF r.err # OK THEN [err |-> r.err, infer |-> infer_fields]
             ELSE infer_list_extra(cols, index + 1, Append(infer_fields, r.f))

infer_list_loop_TrustsSchema(tmp_fields, cols, i, infer_fields) ==
    [err |-> OK,
     infer |-> [j \in 1..Len(tmp_fields) |->
                   InferredField("", tmp_fields[j].dtype, {}).f]]

\* the first loop of parse_fields_from_data: one inferred field per expected
\* field; a column that is missing, None or empty takes the schema's dtype
RECURSIVE infer_list_loop(_, _, _, _)
infer_list_loop(tmp_fields, cols, i, infer_fields) ==
    IF i > Len(tmp_fields) THEN infer_list_extra(cols, i, infer_fields)
    ELSE IF i <= Len(cols) /\ cols[i] = "scalar"
      THEN [err |-> Raise("DataTypeNotSupportException", "DataListOfList"),
            infer |-> infer_fields]
    ELSE LET dtype == IF i > Len(cols) \/ cols[i] = None \/ cols[i] = "[]"
                      THEN tmp_fields[i].dtype
                      ELSE cols[i]
             r == InferredField("", dtype, {})
         IN  IF r.err # OK THEN [err |-> r.err, infer |-> infer_fields]
             ELSE infer_list_loop(tmp_fields, cols, i + 1, Append(infer_fields, r.f))

\* prepare_fields_from_dataframe: [err, col_names, data_types, params], params
\* the column_params_map as a function from column position to type params
prepare_fields_from_dataframe(df) ==
    LET n == Len(df.cols)
        mapped == [i \in 1..n |-> df.cols[i].mapped]
        unknown == \E i \in 1..n : mapped[i] = UNKNOWN
        types == [i \in 1..n |-> IF mapped[i] = UNKNOWN THEN df.cols[i].sampled
                                 ELSE mapped[i]]
        params == [i \in 1..n |->
                     IF mapped[i] = UNKNOWN
                        /\ types[i] \in {BINARY_VECTOR, FLOAT_VECTOR}
                     THEN {<<"dim", 8>>} ELSE {}]
        names == [i \in 1..n |-> df.cols[i].name]
        fail == [err |-> Raise("CannotInferSchemaException", "DataFrameInvalid"),
                 col_names |-> names, data_types |-> mapped,
                 params |-> [i \in 1..n |-> {}]]
    IN  IF unknown /\ df.rows = "empty" THEN fail
        ELSE IF \E i \in 1..n : types[i] = UNKNOWN THEN fail
        ELSE [err |-> OK, col_names |-> names, data_types |-> types,
              params |-> params]

\* col_names.index(name), positions from 1; 0 when name is not in col_names
IndexOf(col_names, name) ==
    IF \E i \in 1..Len(col_names) : col_names[i] = name
    THEN CHOOSE i \in 1..Len(col_names) :
            /\ col_names[i] = name
            /\ \A j \in 1..(i - 1) : col_names[j] # name
    ELSE 0

infer_df_loop_ColumnOrder(tmp_fields, i, st) ==
    [st EXCEPT !.infer = [j \in 1..Len(st.col_names) |->
                            InferredField(st.col_names[j], st.data_types[j],
                                          st.params[j]).f]]

\* the first loop of parse_fields_from_dataframe. st is [err, col_names,
\* data_types, params, infer]: a field with no column takes the schema's
\* dtype and is appended to col_names / data_types
RECURSIVE infer_df_loop(_, _, _)
infer_df_loop(tmp_fields, i, st) ==
    IF i > Len(tmp_fields) \/ st.err # OK THEN st
    ELSE LET f == tmp_fields[i]
             at == IndexOf(st.col_names, f.name)
             r == InferredField(f.name,
                                IF at = 0 THEN f.dtype ELSE st.data_types[at],
                                IF at # 0 /\ at <= Len(st.params)
                                THEN st.params[at] ELSE {})
         IN  infer_df_loop(tmp_fields, i + 1,
                [st EXCEPT
                   !.err = r.err,
                   !.col_names = IF at = 0 THEN Append(@, f.name) ELSE @,
                   !.data_types = IF at = 0 THEN Append(@, f.dtype) ELSE @,
                   !.infer = IF r.err = OK THEN Append(@, r.f) ELSE @])

\* the second loop of parse_fields_from_dataframe: the columns no inferred
\* field is named after, in column order; infer_name is fixed before the loop
RECURSIVE infer_df_extra(_, _, _)
infer_df_extra(st, infer_name, j) ==
    IF j > Len(st.col_names) \/ st.err # OK THEN st
    ELSE IF st.col_names[j] \in infer_name THEN infer_df_extra(st, infer_name, j + 1)
    ELSE LET r == InferredField(st.col_names[j], st.data_types[j],
                                IF j <= Len(st.params) THEN st.params[j] ELSE {})
         IN  infer_df_extra(
                [st EXCEPT !.err = r.err,
                           !.infer = IF r.err = OK THEN Append(@, r.f) ELSE @],
                infer_name, j + 1)

\* what parse_fields_from_data returns: [err, parsed, infer_fields,
\* tmp_fields, is_data_frame]; parsed is whether it returned
ParseResult(e, infer_fields, tmp_fields, is_data_frame) ==
    [err |-> e, parsed |-> (e = OK), infer_fields |-> infer_fields,
     tmp_fields |-> tmp_fields, is_data_frame |-> is_data_frame]

\* infer_name = [f.name for f in infer_fields], then the second loop; st1 is
\* the state the first loop ended in
infer_df_rest(st1) ==
    infer_df_extra(st1, {st1.infer[i].name : i \in 1..Len(st1.infer)}, 1)

\* the two loops of parse_fields_from_dataframe, from what
\* prepare_fields_from_dataframe returned
infer_df(tmp_fields, prep) ==
    infer_df_rest(
        infer_df_loop(tmp_fields, 1,
            [err |-> OK, col_names |-> prep.col_names,
             data_types |-> prep.data_types, params |-> prep.params,
             infer |-> << >>]))

\* return infer_fields, tmp_fields, True
DataFrameResult(st, tmp_fields) == ParseResult(st.err, st.infer, tmp_fields, TRUE)

\* parse_fields_from_dataframe after its first line: prep is what
\* prepare_fields_from_dataframe returned, popped what the removal of the
\* auto-id primary fields from the deep copy gives
parse_prepared_dataframe(prep, popped) ==
    IF prep.err # OK THEN ParseResult(prep.err, << >>, << >>, TRUE)
    ELSE IF popped.err # OK THEN ParseResult(popped.err, << >>, popped.tmp, TRUE)
    ELSE DataFrameResult(infer_df(popped.tmp, prep), popped.tmp)

\* parse_fields_from_dataframe
parse_fields_from_dataframe(schema_fields, df) ==
    parse_prepared_dataframe(
        prepare_fields_from_dataframe(df),
        pop_auto_id_df(schema_fields, DeepCopyFields(schema_fields), 1))

\* return infer_fields, tmp_fields, False
ListResult(r, tmp_fields) == ParseResult(r.err, r.infer, tmp_fields, FALSE)

\* the list path of parse_fields_from_data, from tmp_fields as the removal
\* of the auto-id primary fields left it
parse_fields_from_list(tmp_fields, cols) ==
    ListResult(infer_list_loop(tmp_fields, cols, 1, << >>), tmp_fields)

\* parse_fields_from_data
parse_fields_from_data(schema_fields, payload) ==
    IF payload.kind \notin {"DataFrame", "list"}
    THEN ParseResult(Raise("DataTypeNotSupportException", "DataTypeList"),
                     << >>, << >>, FALSE)
    ELSE IF payload.kind = "DataFrame"
    THEN parse_fields_from_dataframe(schema_fields, payload)
    ELSE parse_fields_from_list(
             pop_auto_id_list(DeepCopyFields(schema_fields), 1), payload.cols)

\* check_infer_fields_valid(infer_fields, tmp_fields, is_data_frame) on what
\* parse_fields_from_data returned; not reached when that raised
check_parsed(parsed) ==
    IF parsed.err # OK THEN parsed
    ELSE [parsed EXCEPT
            !.err = check_infer_fields_valid(parsed.infer_fields, parsed.tmp_fields,
                                             parsed.is_data_frame).err]

\* the two closing lines of check_insert_schema and check_upsert_schema
parse_and_check(schema_fields, payload) ==
    check_parsed(parse_fields_from_data(schema_fields, payload))

NotParsed(e) == ParseResult(e, << >>, << >>, FALSE)

\* check_insert_schema(schema, data); schema_is_none: the caller passed None.
\* obj is the schema, [kwargs, fields, primary, partition].
check_insert_schema(schema_is_none, obj, payload) ==
    LET pk == obj.fields[obj.primary]
        has_pk == \E i \in 1..Len(payload.cols) : payload.cols[i].name = pk.name
        dropped == [payload EXCEPT
                      !.cols = SelectSeq(payload.cols, LAMBDA c : c.name # pk.name)]
    IN  IF schema_is_none
        THEN NotParsed(Raise("SchemaNotReadyException", "SchemaNone"))
        ELSE IF obj.primary = 0
        THEN NotParsed(Raise("AttributeError", "NoneType has no auto_id"))
        ELSE IF pk.auto_id /\ payload.kind = "DataFrame" /\ has_pk
                /\ payload.rows = "data"
        THEN NotParsed(Raise("DataNotMatchException", "ExpectNoDataForAutoId"))
        ELSE parse_and_check(obj.fields,
                IF pk.auto_id /\ payload.kind = "DataFrame" /\ has_pk
                THEN dropped ELSE payload)

upsert_after_parse(obj, r) ==
    IF r.err # OK THEN r
    ELSE IF obj.fields[obj.primary].auto_id
    THEN NotParsed(Raise("UpsertAutoIDTrueException", "UpsertAutoIDTrue"))
    ELSE r

check_upsert_schema_ParseFirst(schema_is_none, obj, payload) ==
    IF schema_is_none
    THEN NotParsed(Raise("SchemaNotReadyException", "SchemaNone"))
    ELSE IF obj.primary = 0
    THEN NotParsed(Raise("AttributeError", "NoneType has no auto_id"))
    ELSE upsert_after_parse(obj, parse_and_check(obj.fields, payload))

\* check_upsert_schema(schema, data)
check_upsert_schema(schema_is_none, obj, payload) ==
    IF schema_is_none
    THEN NotParsed(Raise("SchemaNotReadyException", "SchemaNone"))
    ELSE IF obj.primary = 0
    THEN NotParsed(Raise("AttributeError", "NoneType has no auto_id"))
    ELSE IF obj.fields[obj.primary].auto_id
    THEN NotParsed(Raise("UpsertAutoIDTrueException", "UpsertAutoIDTrue"))
    ELSE parse_and_check(obj.fields, payload)

\* ------------------------------------------------------------------- state
VARIABLES
    op,                     \* the last call made
    err,                    \* its outcome: OK or the exception it raised
    kwargs,                 \* CollectionSchema._kwargs
    fields,                 \* CollectionSchema._fields
    primary_field,          \* CollectionSchema._primary_field (index, 0 = None)
    partition_key_field,    \* CollectionSchema._partition_key_field (index)
    description,            \* CollectionSchema._description
    enable_dynamic_field,   \* CollectionSchema._enable_dynamic_field
    data,                   \* the argument of the last call
    out                     \* what the last call returned or computed

vars == <<op, err, kwargs, fields, primary_field, partition_key_field,
          description, enable_dynamic_field, data, out>>

\* no object has been constructed yet
Init ==
    /\ op = "init"
    /\ err = OK
    /\ kwargs = NoKwargs
    /\ fields = << >>
    /\ primary_field = 0
    /\ partition_key_field = 0
    /\ description = ""
    /\ enable_dynamic_field = FALSE
    /\ data = None
    /\ out = None

\* the CollectionSchema object as the validation operators take it
Self ==
    [kwargs |-> kwargs, fields |-> fields, primary |-> primary_field,
     partition |-> partition_key_field]

\* a CollectionSchema object exists: the constructor has returned
Alive == op # "init" /\ ~(op = "construct" /\ err # OK)

\* ------------------------------------------------------------------ inputs
BoolKws == {"True", "False"}

PlainKw ==
    [is_primary |-> Absent, auto_id |-> Absent, is_partition_key |-> Absent,
     is_dynamic |-> FALSE, default_value |-> None, extra |-> {}]

\* keyword arguments that set the key flags only
FlagKws ==
    {[PlainKw EXCEPT !.is_primary = p, !.auto_id = a, !.is_partition_key = k] :
        p \in BoolKws, a \in {Absent, "True"}, k \in BoolKws}

\* the FieldSchema objects FieldSchema(name, dtype, **kw) yields
FieldsOf(names, dtypes, kws) ==
    {FieldSchemaInit(n, t, "", kw).f : n \in names, t \in dtypes,
        kw \in {k \in kws : FieldSchemaInit("a", INT64, "", k).err = OK}}

\* the sequences over S of length at most n
SeqsUpTo(S, n) == UNION {[1..m -> S] : m \in 0..n}

\* the field types of the schemas the key-constraint specification builds
SchemaDTypes == {INT64, FLOAT_VECTOR}

SchemaFields == FieldsOf(Names, SchemaDTypes, FlagKws)

\* every combination of hints with validation on, and validation switched
\* off with or without the auto_id hint
SchemaKwargs ==
    [primary_field : {None} \cup Names,
     partition_key_field : {None} \cup Names,
     auto_id : {Absent, "True"},
     check_fields : {TRUE},
     enable_dynamic_field : {FALSE}]
    \cup
    [primary_field : {None},
     partition_key_field : {None},
     auto_id : {Absent, "True"},
     check_fields : {FALSE},
     enable_dynamic_field : {FALSE}]

\* ----------------------------------------------------------------- actions
\* schema = CollectionSchema(fs, desc, **kw)
Construct(is_list, fs, desc, kw) ==
    LET r == CollectionSchemaInit(is_list, fs, kw)
    IN  /\ op = "init"
        /\ op' = "construct"
        /\ err' = r.err
        /\ kwargs' = kw
        /\ fields' = r.fields
        /\ primary_field' = r.primary
        /\ partition_key_field' = r.partition
        /\ description' = desc
        /\ enable_dynamic_field' = kw.enable_dynamic_field
        /\ data' = [is_list |-> is_list, fields |-> fs]
        /\ out' = None

\* schema.verify()
Verify ==
    LET r == check(Self)
    IN  /\ Alive
        /\ op' = "verify"
        /\ err' = r.err
        /\ fields' = r.fields
        /\ primary_field' = r.primary
        /\ partition_key_field' = r.partition
        /\ data' = None
        /\ out' = None
        /\ UNCHANGED <<kwargs, description, enable_dynamic_field>>

\* schema.add_field(name, dtype, **kw): the FieldSchema is built first, and
\* an exception of its constructor leaves the list as it was
AddField(name, dtype, kw) ==
    LET r == FieldSchemaInit(name, dtype, "", kw)
    IN  /\ Alive
        /\ Len(fields) < MaxFields
        /\ op' = "add_field"
        /\ err' = r.err
        /\ fields' = IF r.err = OK THEN Append(fields, r.f) ELSE fields
        /\ data' = [name |-> name, dtype |-> dtype, kw |-> kw]
        /\ out' = None
        /\ UNCHANGED <<kwargs, primary_field, partition_key_field, description,
                       enable_dynamic_field>>

\* schema.auto_id = value
SetAutoId(value) ==
    /\ Alive
    /\ op' = "set_auto_id"
    /\ err' = OK
    /\ fields' = IF primary_field # 0
                 THEN [fields EXCEPT ![primary_field].auto_id = value]
                 ELSE fields
    /\ data' = None
    /\ out' = None
    /\ UNCHANGED <<kwargs, primary_field, partition_key_field, description,
                   enable_dynamic_field>>

\* schema.enable_dynamic_field = value
SetEnableDynamicField(value) ==
    /\ Alive
    /\ op' = "set_enable_dynamic_field"
    /\ err' = OK
    /\ enable_dynamic_field' = value
    /\ data' = None
    /\ out' = None
    /\ UNCHANGED <<kwargs, fields, primary_field, partition_key_field, description>>

\* the keyword arguments add_field is called with: the key flags, valid or not
AddFieldKws ==
    {[PlainKw EXCEPT !.is_primary = p, !.auto_id = a, !.is_partition_key = k] :
        p \in BoolKws, a \in {Absent, "True"}, k \in BoolKws}

\* ----------------------------------- specification: building a schema
SchemaFieldLists == SeqsUpTo(SchemaFields, MaxFields)

NextSchema ==
    \/ /\ op = "init"
       /\ \E fs \in SchemaFieldLists, kw \in SchemaKwargs : Construct(TRUE, fs, "", kw)
    \/ Verify
    \/ /\ Alive
       /\ \E n \in Names, t \in SchemaDTypes, kw \in AddFieldKws : AddField(n, t, kw)
    \/ \E v \in BOOLEAN : SetAutoId(v)

SpecSchema == Init /\ [][NextSchema]_vars

\* ------------------- specification: changing a schema and verifying it
\* the schemas start from at most MaxVerifyFields fields and grow by add_field
VerifyFields == FieldsOf(Names, {INT64}, FlagKws)

VerifyFieldLists == SeqsUpTo(VerifyFields, MaxVerifyFields)

\* hints naming a field, the auto_id hint given as True or False or not at
\* all, and validation switched off at construction
VerifyKwargs ==
    [primary_field : {None, "a"},
     partition_key_field : {None, "b"},
     auto_id : {Absent, "True", "False"},
     check_fields : {TRUE},
     enable_dynamic_field : {FALSE}]
    \cup
    [primary_field : {None},
     partition_key_field : {None},
     auto_id : {Absent, "True", "False"},
     check_fields : {FALSE},
     enable_dynamic_field : {FALSE}]

NextVerify ==
    \/ /\ op = "init"
       /\ \E fs \in VerifyFieldLists, kw \in VerifyKwargs : Construct(TRUE, fs, "", kw)
    \/ Verify
    \/ /\ Alive
       /\ \E n \in Names, kw \in AddFieldKws : AddField(n, INT64, kw)
    \/ \E v \in BOOLEAN : SetAutoId(v)
    \/ \E v \in BOOLEAN : SetEnableDynamicField(v)

SpecVerify == Init /\ [][NextVerify]_vars

\* ----------------------- specification: the stages of the constructor
\* field lists that may hold an object that is no FieldSchema
KwFieldLists ==
    SeqsUpTo(FieldsOf(Names, DTypes, FlagKws) \cup {NoField}, MaxKwFields)

\* keyword arguments of any type
AnyKwargs ==
    [primary_field : {None, NotStr} \cup Names,
     partition_key_field : {None, NotStr} \cup Names,
     auto_id : OptBool,
     check_fields : BOOLEAN,
     enable_dynamic_field : {FALSE}]

NextKwargs ==
    /\ op = "init"
    /\ \E is_list \in BOOLEAN, fs \in KwFieldLists, kw \in AnyKwargs :
          Construct(is_list, fs, "", kw)

SpecKwargs == Init /\ [][NextKwargs]_vars

\* ------------------------------------ specification: serialization
\* f = FieldSchema(name, dtype, desc, **kw), on its own
NewField(name, dtype, desc, kw) ==
    LET r == FieldSchemaInit(name, dtype, desc, kw)
    IN  /\ op = "init"
        /\ op' = "field"
        /\ err' = r.err
        /\ data' = [name |-> name, dtype |-> dtype, kw |-> kw]
        /\ out' = r.f
        /\ UNCHANGED <<kwargs, fields, primary_field, partition_key_field,
                       description, enable_dynamic_field>>

\* FieldSchema.construct_from_dict(f.to_dict())
FieldRoundTrip ==
    /\ op = "field"
    /\ err = OK
    /\ op' = "field_roundtrip"
    /\ err' = FieldFromDict(FieldToDict(out)).err
    /\ data' = out
    /\ out' = FieldFromDict(FieldToDict(out)).f
    /\ UNCHANGED <<kwargs, fields, primary_field, partition_key_field,
                   description, enable_dynamic_field>>

\* CollectionSchema.construct_from_dict(schema.to_dict())
SchemaRoundTrip ==
    /\ op = "construct"
    /\ err = OK
    /\ kwargs.check_fields
    /\ op' = "schema_roundtrip"
    /\ err' = SchemaFromDict(SchemaToDict(Self, description, enable_dynamic_field)).err
    /\ out' = SchemaFromDict(SchemaToDict(Self, description, enable_dynamic_field))
    /\ UNCHANGED <<kwargs, fields, primary_field, partition_key_field,
                   description, enable_dynamic_field, data>>

\* keyword arguments of FieldSchema of every kind
AnyFieldKws ==
    [is_primary : OptBool, auto_id : OptBool, is_partition_key : OptBool,
     is_dynamic : BOOLEAN,
     default_value : {None, "scalar:1", "list", "VF:long=1", "VF:unset"},
     extra : {{}, {<<"dim", 8>>}, {<<"dim", 8>>, <<"nlist", 1>>}}]

\* key flags together with a dimension, the dynamic flag and a default value
RichKws ==
    {[k EXCEPT !.is_dynamic = TRUE, !.default_value = "scalar:1",
               !.extra = {<<"dim", 8>>}] : k \in FlagKws}

SerialFieldLists ==
    SeqsUpTo(FieldsOf({"a"}, SchemaDTypes, FlagKws)
                \cup FieldsOf({"b"}, {VARCHAR, FLOAT_VECTOR}, RichKws),
             MaxFields)

SerialKwargs ==
    [primary_field : {None} \cup Names,
     partition_key_field : {None} \cup Names,
     auto_id : {Absent, "True"},
     check_fields : {TRUE},
     enable_dynamic_field : BOOLEAN]

NextSerial ==
    \/ /\ op = "init"
       /\ \E n \in {"a"}, t \in DTypes \cup {UNKNOWN, InvalidDType},
             d \in {"", "text"}, kw \in AnyFieldKws : NewField(n, t, d, kw)
    \/ FieldRoundTrip
    \/ /\ op = "init"
       /\ \E fs \in SerialFieldLists, kw \in SerialKwargs :
             Construct(TRUE, fs, "text", kw)
    \/ SchemaRoundTrip

SpecSerial == Init /\ [][NextSerial]_vars

\* ------------------------------------ specification: checking payloads
\* a check of a payload against the schema ends with r: the schema is left
\* as it is, the call's arguments and what it returned or raised are kept
Checked(name, schema_is_none, payload, r) ==
    /\ op = "construct"
    /\ err = OK
    /\ op' = name
    /\ err' = r.err
    /\ data' = [schema_is_none |-> schema_is_none, payload |-> payload]
    /\ out' = r
    /\ UNCHANGED <<kwargs, fields, primary_field, partition_key_field,
                   description, enable_dynamic_field>>

\* check_insert_schema(schema, payload)
CheckInsert(schema_is_none, payload) ==
    Checked("check_insert", schema_is_none, payload,
            check_insert_schema(schema_is_none, Self, payload))

\* check_upsert_schema(schema, payload)
CheckUpsert(schema_is_none, payload) ==
    Checked("check_upsert", schema_is_none, payload,
            check_upsert_schema(schema_is_none, Self, payload))

\* the fields of the schemas payloads are checked against: an auto-id primary
\* key, a primary key the caller supplies, a vector and a string
DataFields ==
    {FieldSchemaInit("id", INT64, "",
        [PlainKw EXCEPT !.is_primary = "True", !.auto_id = "True"]).f,
     FieldSchemaInit("id", INT64, "", [PlainKw EXCEPT !.is_primary = "True"]).f,
     FieldSchemaInit("vec", FLOAT_VECTOR, "",
        [PlainKw EXCEPT !.extra = {<<"dim", 8>>}]).f,
     FieldSchemaInit("tag", VARCHAR, "", PlainKw).f}

DataFieldLists == SeqsUpTo(DataFields, MaxDataFields)

\* a column whose first element has a type or none (UNKNOWN)
ListColumns == {None, "[]", "scalar", UNKNOWN} \cup DTypes

ListPayloads ==
    {[kind |-> "list", cols |-> c, rows |-> "data"] :
        c \in SeqsUpTo(ListColumns, MaxListCols)}

\* a numeric column numpy types as int64, and object columns holding strings,
\* float vectors, or values no DataType is inferred for
TableColumns ==
    {[name |-> n, mapped |-> t[1], sampled |-> t[2]] :
        n \in {"id", "vec", "tag"},
        t \in {<<INT64, INT64>>, <<UNKNOWN, VARCHAR>>, <<UNKNOWN, FLOAT_VECTOR>>,
               <<UNKNOWN, UNKNOWN>>}}

\* the columns of a DataFrame have distinct names
TablePayloads ==
    {[kind |-> "DataFrame", cols |-> c, rows |-> r] :
        c \in {x \in SeqsUpTo(TableColumns, MaxTableCols) :
                  \A i, j \in 1..Len(x) : x[i].name = x[j].name => i = j},
        r \in {"empty", "null", "data"}}

\* a payload that is neither a list nor a DataFrame
OtherPayload == [kind |-> "other", cols |-> << >>, rows |-> "data"]

Payloads == ListPayloads \cup TablePayloads \cup {OtherPayload}

NextData ==
    \/ /\ op = "init"
       /\ \E fs \in DataFieldLists : Construct(TRUE, fs, "", NoKwargs)
    \/ /\ op = "construct"
       /\ \E payload \in Payloads : CheckInsert(FALSE, payload)
    \/ CheckInsert(TRUE, OtherPayload)
    \/ /\ op = "construct"
       /\ \E payload \in Payloads : CheckUpsert(FALSE, payload)
    \/ CheckUpsert(TRUE, OtherPayload)

SpecData == Init /\ [][NextData]_vars

\* ----------------------------------- specification: reconciliation
\* check_infer_fields_valid(infer_fields, tmp_fields, is_data_frame)
CheckInfer(infer_fields, tmp_fields, is_data_frame) ==
    LET r == check_infer_fields_valid(infer_fields, tmp_fields, is_data_frame)
    IN  /\ op = "init"
        /\ op' = "check_infer"
        /\ err' = r.err
        /\ data' = [infer_fields |-> infer_fields, tmp_fields |-> tmp_fields,
                    is_data_frame |-> is_data_frame]
        /\ out' = [at |-> r.at, returned |-> None]
        /\ UNCHANGED <<kwargs, fields, primary_field, partition_key_field,
                       description, enable_dynamic_field>>

ReconFieldLists ==
    SeqsUpTo({InferredField(n, t, {}).f : n \in {"", "vec", "tag"}, t \in DTypes},
             MaxReconLen)

NextRecon ==
    /\ op = "init"
    /\ \E i \in ReconFieldLists, t \in ReconFieldLists, df \in BOOLEAN :
          CheckInfer(i, t, df)

SpecRecon == Init /\ [][NextRecon]_vars

\* ------------------------------------------------------------------ claims
\* the constructor ran with check_fields enabled and returned
Constructed == op = "construct" /\ kwargs.check_fields /\ err = OK

PrimaryFlagged == {i \in 1..Len(fields) : fields[i].is_primary}

\* C1: a schema whose partition-key field is its primary field is never
\* constructed: the constructor does not return a schema whose
\* partition_key_field and primary_field have the same name.
C1_PartitionKeyNotPrimary ==
    (Constructed /\ partition_key_field # 0 /\ primary_field # 0)
        => fields[partition_key_field].name # fields[primary_field].name

\* C3: every schema the constructor returns has exactly one field flagged
\* is_primary, and primary_field is that field with a dtype in {INT64, VARCHAR}.
C3_ExactlyOnePrimary ==
    Constructed =>
        /\ primary_field # 0
        /\ PrimaryFlagged = {primary_field}
        /\ fields[primary_field].dtype \in KeyDTypes

\* the messages of the exceptions FieldSchema.__init__ raises
FieldLevelMsgs ==
    {"FieldDtype", "IsPrimaryType", "AutoIDType", "AutoIDOnlyOnPK",
     "IsPartitionKeyType", "DefaultValueUnsupported"}

\* C5 (as stated): add_field never raises a key-constraint error.
C5_AddFieldNeverRaisesKeyError ==
    op = "add_field" => err.type \notin {"PrimaryKeyException", "PartitionKeyException"}

\* C5 (amended): add_field validates nothing at the level of the collection.
\* It raises only what the FieldSchema constructor raises for the new field,
\* and then appends nothing; otherwise it appends the new field, whatever the
\* list then looks like; either way primary_field and partition_key_field stay
\* as they were. verify() ends as constructing a schema (check_fields enabled)
\* from the current field list and the same keyword arguments ends.
C5_AddFieldThenVerify ==
    [][/\ op' = "add_field" =>
            /\ primary_field' = primary_field
            /\ partition_key_field' = partition_key_field
            /\ err' # OK => (err'.msg \in FieldLevelMsgs /\ fields' = fields)
            /\ err' = OK =>
                 /\ Len(fields') = Len(fields) + 1
                 /\ SubSeq(fields', 1, Len(fields)) = fields
                 /\ fields'[Len(fields')].name = data'.name
                 /\ fields'[Len(fields')].dtype = data'.dtype
                 /\ fields'[Len(fields')].is_primary = GetBool(data'.kw.is_primary)
                 /\ fields'[Len(fields')].is_partition_key
                        = GetBool(data'.kw.is_partition_key)
       /\ op' = "verify" =>
            err' = CollectionSchemaInit(
                       TRUE, fields, [kwargs EXCEPT !.check_fields = TRUE]).err
      ]_vars

\* C5 witness: a schema that passed validation at construction, was extended by
\* add_field with a second primary field of another name, and fails verify().
C5_Witness ==
    /\ op = "verify"
    /\ kwargs.check_fields
    /\ err = Raise("PrimaryKeyException", "PrimaryKeyOnlyOne")

\* C6: no field ever has auto_id without is_primary, and a FieldSchema asked
\* for with auto_id = True and not is_primary is refused with PrimaryKeyError.
C6_AutoIdOnlyOnPrimary ==
    /\ \A i \in 1..Len(fields) : fields[i].auto_id => fields[i].is_primary
    /\ (op = "add_field" /\ data.kw.auto_id = "True" /\ data.kw.is_primary # "True")
          => err = Raise("PrimaryKeyException", "AutoIDOnlyOnPK")

\* C6 witness: a verified schema of two fields whose primary field got its
\* auto_id from the constructor hint, the other field being no primary field.
C6_Witness ==
    /\ op = "verify"
    /\ err = OK
    /\ kwargs.auto_id = "True"
    /\ primary_field # 0
    /\ fields[primary_field].auto_id
    /\ \E j \in 1..Len(fields) : ~fields[j].is_primary /\ ~fields[j].auto_id

\* the list self._fields starts from: a deep copy of each element passed in
CopiedFields == [i \in 1..Len(data.fields) |-> DeepCopyField(data.fields[i])]

\* some keyword argument or list element has the wrong type
KwargsIllTyped ==
    \/ kwargs.primary_field = NotStr
    \/ kwargs.partition_key_field = NotStr
    \/ kwargs.auto_id = NotBool
    \/ \E i \in 1..Len(data.fields) : data.fields[i].kind # "FieldSchema"

\* C10: the constructor reports the earliest failing stage. An ill-typed
\* keyword or element is reported before any field flag is reconciled (the
\* fields are still the copies of the ones passed in and no key field is
\* set); a missing or ill-typed primary key is reported rather than a missing
\* or ill-typed partition key when both are wrong; and the auto_id hint reaches
\* the primary field only when every stage has passed.
C10_EarliestStageReported ==
    (op = "construct" /\ data.is_list) =>
        /\ KwargsIllTyped =>
              /\ err.msg \in {"PrimaryFieldType", "PartitionKeyFieldType",
                              "FieldType", "AutoIDType"}
              /\ fields = CopiedFields
              /\ primary_field = 0 /\ partition_key_field = 0
        /\ err.msg \in {"PartitionKeyType", "PartitionKeyFieldNotExist"} =>
              /\ primary_field # 0
              /\ fields[primary_field].dtype \in KeyDTypes
        /\ err # OK =>
              \A i \in 1..Len(fields) : fields[i].auto_id = CopiedFields[i].auto_id
        /\ (err = OK /\ kwargs.check_fields) =>
              \A i \in 1..Len(fields) :
                 fields[i].auto_id =
                    (CopiedFields[i].auto_id
                        \/ (kwargs.auto_id = "True" /\ i = primary_field))

\* C10 witness: no primary key and a partition key of a type that is not
\* allowed, with the auto_id hint set: the primary-key error is the one raised.
C10_Witness ==
    /\ op = "construct"
    /\ err = Raise("PrimaryKeyException", "PrimaryKeyNotExist")
    /\ kwargs.auto_id = "True"
    /\ \E i \in 1..Len(fields) :
          fields[i].is_partition_key /\ fields[i].dtype \notin KeyDTypes

\* C4: serialization round-trips. The schema rebuilt from the dict of a
\* validated schema is constructed without error and is equal to it: the same
\* dict, the same fields attribute by attribute and in the same order, the
\* same description, auto_id and enable_dynamic_field; and the field rebuilt
\* from the dict of a field is that field.
C4_RoundTrip ==
    /\ op = "schema_roundtrip" =>
          /\ err = OK
          /\ SchemaToDict(out.obj, out.description, out.enable_dynamic_field)
                = SchemaToDict(Self, description, enable_dynamic_field)
          /\ out.obj.fields = fields
          /\ out.description = description
          /\ out.enable_dynamic_field = enable_dynamic_field
          /\ out.obj.fields[out.obj.primary].auto_id = fields[primary_field].auto_id
    /\ op = "field_roundtrip" =>
          /\ err = OK
          /\ out = data
          /\ FieldToDict(out) = FieldToDict(data)

\* C4 witness: a round trip of a schema of two fields whose primary key,
\* partition key and auto_id were all assigned through the constructor hints,
\* one field carrying type params and a default value.
C4_Witness ==
    /\ op = "schema_roundtrip"
    /\ Len(fields) = 2
    /\ kwargs.primary_field # None
    /\ kwargs.partition_key_field # None
    /\ kwargs.partition_key_field # kwargs.primary_field
    /\ kwargs.auto_id = "True"
    /\ enable_dynamic_field
    /\ \E i \in 1..2 : fields[i].params # {} /\ fields[i].default_value # None
    /\ \A i \in 1..2 :
          /\ ~data.fields[i].is_primary
          /\ ~data.fields[i].is_partition_key
          /\ ~data.fields[i].auto_id

\* the positions at which two lists of the same length differ in dtype, in name
DTypeDiffs(x, y) == {i \in 1..Len(x) : x[i].dtype # y[i].dtype}
NameDiffs(x, y) == {i \in 1..Len(x) : x[i].name # y[i].name}
Least(S) == CHOOSE i \in S : \A j \in S : i <= j

NonAutoIdFields == SelectSeq(fields, LAMBDA f : ~IsAutoIdPrimary(f))

AutoIdPrimaries == {i \in 1..Len(fields) : IsAutoIdPrimary(fields[i])}

\* the columns of a list payload each hold a value of an inferable type
PlainColumns(cols) == \A i \in 1..Len(cols) : cols[i] \in DTypes

\* C2 (as stated): against the expected fields [vec, tag], a list payload
\* holding the vec column only is refused with DataNotMatch (count mismatch).
C2_OneColumnShortFails ==
    (/\ op = "check_insert"
     /\ ~data.schema_is_none
     /\ data.payload.kind = "list"
     /\ data.payload.cols = <<FLOAT_VECTOR>>
     /\ Cardinality(AutoIdPrimaries) = 1
     /\ [i \in 1..Len(NonAutoIdFields) |-> NonAutoIdFields[i].dtype]
           = <<FLOAT_VECTOR, VARCHAR>>)
        => err = Raise("DataNotMatchException", "FieldsNotMatch")

\* C2 (amended): a list payload of columns that match the first expected
\* fields in dtype is accepted when it is as long as the expected fields and
\* also when it is shorter (the missing columns take the schema's dtypes); a
\* list payload with more columns than expected fields is refused with
\* DataNotMatch reporting the count mismatch.
C2_ListColumnCount ==
    (/\ op = "check_insert"
     /\ ~data.schema_is_none
     /\ data.payload.kind = "list"
     /\ PlainColumns(data.payload.cols)
     /\ Cardinality(AutoIdPrimaries) <= 1) =>
        LET cols == data.payload.cols
            expected == NonAutoIdFields
        IN  /\ (/\ Len(cols) <= Len(expected)
                /\ \A i \in 1..Len(cols) : cols[i] = expected[i].dtype)
                  => err = OK
            /\ Len(cols) > Len(expected)
                  => err = Raise("DataNotMatchException", "FieldsNotMatch")

\* C2 witness: schema [id (auto-id), vec, tag] and the payload [[vec values]]:
\* accepted.
C2_Witness ==
    /\ op = "check_insert"
    /\ data.payload.kind = "list"
    /\ data.payload.cols = <<FLOAT_VECTOR>>
    /\ Len(fields) = 3
    /\ IsAutoIdPrimary(fields[1])
    /\ fields[2].dtype = FLOAT_VECTOR
    /\ fields[3].dtype = VARCHAR
    /\ err = OK

\* the DataType prepare_fields_from_dataframe settles on for a column
ColumnDType(c) == IF c.mapped = UNKNOWN THEN c.sampled ELSE c.mapped

\* the DataFrame's columns are the fields fs, one each, in any order, with the
\* fields' dtypes
ColumnsAre(cols, fs) ==
    /\ Len(cols) = Len(fs)
    /\ \A i, j \in 1..Len(fs) : fs[i].name = fs[j].name => i = j
    /\ \A i \in 1..Len(fs) :
          \E j \in 1..Len(cols) :
             cols[j].name = fs[i].name /\ ColumnDType(cols[j]) = fs[i].dtype

\* C7: for a schema with one auto-id primary field, the expected fields are
\* the schema's fields without it, in order; a DataFrame whose columns are
\* exactly those fields (no primary-key column) is accepted, and so is a list
\* payload with one matching column per expected field, in order.
C7_AutoIdExcluded ==
    (/\ op = "check_insert"
     /\ ~data.schema_is_none
     /\ Cardinality(AutoIdPrimaries) = 1
     /\ fields[primary_field].auto_id) =>
        LET cols == data.payload.cols
        IN  /\ out.parsed => out.tmp_fields = NonAutoIdFields
            /\ (/\ data.payload.kind = "DataFrame"
                /\ ColumnsAre(cols, NonAutoIdFields)
                /\ \A j \in 1..Len(cols) :
                      cols[j].mapped = UNKNOWN => data.payload.rows # "empty"
                /\ \A j \in 1..Len(cols) : cols[j].name # fields[primary_field].name)
                  => (err = OK /\ out.parsed)
            /\ (/\ data.payload.kind = "list"
                /\ Len(cols) = Len(NonAutoIdFields)
                /\ \A i \in 1..Len(cols) : cols[i] = NonAutoIdFields[i].dtype)
                  => (err = OK /\ out.parsed)

\* C7 witness: schema [id (auto-id), vec, tag] and a DataFrame with the
\* columns tag and vec, in that order, and no id column: accepted.
C7_Witness ==
    /\ op = "check_insert"
    /\ Len(fields) = 3
    /\ IsAutoIdPrimary(fields[1])
    /\ fields[2].name = "vec"
    /\ fields[3].name = "tag"
    /\ data.payload.kind = "DataFrame"
    /\ Len(data.payload.cols) = 2
    /\ data.payload.cols[1].name = "tag"
    /\ data.payload.cols[2].name = "vec"
    /\ err = OK
    /\ Len(out.tmp_fields) = 2

\* C8: check_upsert_schema on a schema whose auto_id is true raises
\* UpsertAutoIDTrue, whatever the payload.
C8_UpsertAutoIdRefused ==
    (/\ op = "check_upsert"
     /\ ~data.schema_is_none
     /\ primary_field # 0
     /\ fields[primary_field].auto_id)
        => err = Raise("UpsertAutoIDTrueException", "UpsertAutoIDTrue")

\* C8 witness: an auto-id schema and a payload that is neither a list nor a
\* DataFrame.
C8_Witness ==
    /\ op = "check_upsert"
    /\ ~data.schema_is_none
    /\ fields[primary_field].auto_id
    /\ data.payload.kind = "other"
    /\ err = Raise("UpsertAutoIDTrueException", "UpsertAutoIDTrue")

\* parse_fields_from_data took the list path: the payload is a list and no
\* check before the call refused it
ListPathTaken ==
    /\ op \in {"check_insert", "check_upsert"}
    /\ ~data.schema_is_none
    /\ data.payload.kind = "list"
    /\ (op = "check_upsert" => ~fields[primary_field].auto_id)

Max(a, b) == IF a >= b THEN a ELSE b

ListPathReturns(cols, expected) ==
    \A i \in 1..Len(cols) :
        IF i <= Len(expected) THEN cols[i] \notin {"scalar", UNKNOWN}
        ELSE cols[i] \in DTypes

C11_ExtraEmptyRaises ==
    /\ ListPathTaken
    /\ Len(data.payload.cols) > Len(out.tmp_fields)
    /\ data.payload.cols[Len(data.payload.cols)] = "[]"
    /\ err.type = "IndexError"

\* what to_dict shows of the fields, in order
ObservableFields(fs) == [i \in 1..Len(fs) |-> FieldToDict(fs[i])]

\* the last position of fs whose field satisfies flag, 0 when there is none
LastFlagged(fs, flag(_)) ==
    IF \E i \in 1..Len(fs) : flag(fs[i])
    THEN CHOOSE i \in 1..Len(fs) :
            flag(fs[i]) /\ \A j \in (i + 1)..Len(fs) : ~flag(fs[j])
    ELSE 0

IsPrimary(f) == f.is_primary

IsPartitionKey(f) == f.is_partition_key

\* C12 (as stated): a verify() that succeeds leaves the schema as it was:
\* what to_dict shows of every field, the order of the fields, description,
\* enable_dynamic_field, primary_field and partition_key_field.
C12_VerifyIsPure ==
    [][(op' = "verify" /\ err' = OK) =>
          /\ ObservableFields(fields') = ObservableFields(fields)
          /\ description' = description
          /\ enable_dynamic_field' = enable_dynamic_field
          /\ primary_field' = primary_field
          /\ partition_key_field' = partition_key_field
      ]_vars

\* C12 (amended): a verify() that succeeds leaves description,
\* enable_dynamic_field, the keyword arguments and the order of the fields as
\* they were, and every attribute of every field but three: is_primary
\* (is_partition_key) becomes true on a field the hint names and on a field
\* that follows a field so flagged of the same name; primary_field and
\* partition_key_field become the last field so flagged (partition_key_field
\* None when there is none); and auto_id of the primary field becomes true
\* when the auto_id hint given at construction is True, whatever the setter
\* wrote since. With no such hint, and primary_field where it was, the value
\* the setter wrote survives.
C12_VerifyFrame ==
    [][(op' = "verify" /\ err' = OK) =>
          /\ description' = description
          /\ enable_dynamic_field' = enable_dynamic_field
          /\ kwargs' = kwargs
          /\ Len(fields') = Len(fields)
          /\ primary_field' = LastFlagged(fields', IsPrimary)
          /\ primary_field' # 0
          /\ partition_key_field' = LastFlagged(fields', IsPartitionKey)
          /\ \A i \in 1..Len(fields) :
                fields'[i] =
                  [fields[i] EXCEPT
                     !.is_primary =
                        \/ @
                        \/ kwargs.primary_field = fields[i].name
                        \/ \E j \in 1..(i - 1) :
                              fields[j].is_primary /\ fields[j].name = fields[i].name,
                     !.is_partition_key =
                        \/ @
                        \/ kwargs.partition_key_field = fields[i].name
                        \/ \E j \in 1..(i - 1) :
                              /\ fields[j].is_partition_key
                              /\ fields[j].name = fields[i].name,
                     !.auto_id = IF i = primary_field' /\ kwargs.auto_id = "True"
                                 THEN TRUE ELSE @]
          /\ (kwargs.auto_id # "True" /\ primary_field' = primary_field) =>
                fields'[primary_field'].auto_id = fields[primary_field].auto_id
      ]_vars

\* C12 witness: a schema built with check_fields = False and the auto_id hint
\* True has no primary_field until a verify() succeeds; here one has, and
\* the primary field has taken the hint.
C12_Witness ==
    /\ op = "verify"
    /\ err = OK
    /\ ~kwargs.check_fields
    /\ kwargs.auto_id = "True"
    /\ primary_field # 0
    /\ fields[primary_field].auto_id

\* C12, the state before the other case: the auto_id hint is True, the
\* setter has just written False, and verify() would succeed.
C12_SetterAgainstHint ==
    /\ op = "set_auto_id"
    /\ kwargs.auto_id = "True"
    /\ primary_field # 0
    /\ ~fields[primary_field].auto_id
    /\ check(Self).err = OK

\* parse_fields_from_dataframe was called and returned
TabularParsed ==
    /\ op \in {"check_insert", "check_upsert"}
    /\ ~data.schema_is_none
    /\ data.payload.kind = "DataFrame"
    /\ out.parsed

\* the names of the DataFrame's columns as parse_fields_from_dataframe gets
\* them: check_insert_schema drops the column of an auto-id primary field
ParsedColumnNames ==
    {data.payload.cols[j].name : j \in 1..Len(data.payload.cols)}
        \ (IF op = "check_insert" /\ fields[primary_field].auto_id
            THEN {fields[primary_field].name} ELSE {})

\* C13: on the DataFrame path, for a schema with at most one auto-id primary
\* field, the expected fields are the schema's fields without that one, the
\* inferred field at each expected position has the expected field's name,
\* whatever the order of the columns and whichever are missing, and the
\* reconciliation fails only with the count mismatch (exactly when a column
\* is named after no expected field) or a dtype mismatch, never with the
\* name mismatch.
C13_TabularNamesAligned ==
    (TabularParsed /\ Cardinality(AutoIdPrimaries) <= 1) =>
        LET expected == out.tmp_fields
            inferred == out.infer_fields
            names == {expected[i].name : i \in 1..Len(expected)}
        IN  /\ out.is_data_frame
            /\ expected = NonAutoIdFields
            /\ Len(inferred) >= Len(expected)
            /\ \A i \in 1..Len(expected) : inferred[i].name = expected[i].name
            /\ err \in {OK, Raise("DataNotMatchException", "FieldsNotMatch"),
                         Raise("DataNotMatchException", "DataTypeNotMatch")}
            /\ err = Raise("DataNotMatchException", "FieldsNotMatch")
                  <=> ~(ParsedColumnNames \subseteq names)
            /\ err = Raise("DataNotMatchException", "DataTypeNotMatch")
                  => \E i \in 1..Len(expected) : inferred[i].dtype # expected[i].dtype

\* C13 witness: the schema [id, vec, tag] with no auto-id field and a
\* DataFrame with the columns tag and id, in that order, and no vec column:
\* three inferred fields named as the expected ones, accepted.
C13_Witness ==
    /\ TabularParsed
    /\ AutoIdPrimaries = {}
    /\ [i \in 1..Len(fields) |-> fields[i].name] = <<"id", "vec", "tag">>
    /\ [j \in 1..Len(data.payload.cols) |-> data.payload.cols[j].name]
          = <<"tag", "id">>
    /\ [i \in 1..Len(out.infer_fields) |-> out.infer_fields[i].name]
          = <<"id", "vec", "tag">>
    /\ err = OK

\* C13, the two failures of the reconciliation: a column named after no
\* expected field, and a column of another dtype than its field
C13_CountMismatch ==
    /\ TabularParsed
    /\ Cardinality(AutoIdPrimaries) <= 1
    /\ err = Raise("DataNotMatchException", "FieldsNotMatch")

C13_DTypeMismatch ==
    /\ TabularParsed
    /\ Cardinality(AutoIdPrimaries) <= 1
    /\ err = Raise("DataNotMatchException", "DataTypeNotMatch")

====
